---------------------------- MODULE Spec2Model ----------------------------
(***************************************************************************)
(* wasm-map-lookup (src/src/main.rs): decode the VLQ "mappings" of an      *)
(* AssemblyScript source map into a table of (wasm offset -> source        *)
(* position) entries, sort it, and resolve each queried offset by a floor  *)
(* search with a backward scan for the closest entry that has a source.    *)
(*                                                                         *)
(* Text is modelled as a sequence of one-character strings.  A u32 is the  *)
(* record [hi, lo] of its two 16-bit halves, an i32 is an integer in       *)
(* MinI32..MaxI32, an Option is None or Some(x).                           *)
(***************************************************************************)
EXTENDS Integers, Sequences, FiniteSets, TLC

(* ------------------------------ bounds -------------------------------- *)
\* most offset literals on the command line
MaxOffsets == 2
\* most segments (separated by ',' or ';') in a mappings string
MaxSegs == 3
\* most values encoded into one text by the VLQ round trip
MaxValues == 2

(* --------------------------- machine integers ------------------------- *)
\* i32::MAX, the type of value, source_index, original_line, original_column
MaxI32 == 2147483647
MinI32 == -MaxI32 - 1

None == [some |-> FALSE]
Some(x) == [some |-> TRUE, val |-> x]

\* a u32 from its halves
U32(h, l) == [hi |-> h, lo |-> l]

\* `x as u32` for an i32 x: the same 32 bits read unsigned
AsU32(x) ==
  IF x >= 0 THEN U32(x \div 65536, x % 65536)
  ELSE LET m == x - MinI32 IN U32(32768 + (m \div 65536), m % 65536)

\* u32::wrapping_add
WrappingAddU32(a, b) ==
  LET l == a.lo + b.lo
      h == a.hi + b.hi + (l \div 65536)
  IN U32(h % 65536, l % 65536)

\* Ord::cmp on u32
CmpU32(a, b) ==
  IF a.hi < b.hi \/ (a.hi = b.hi /\ a.lo < b.lo) THEN "Less"
  ELSE IF a = b THEN "Equal" ELSE "Greater"

\* a + b on i32 overflows
AddOverflowsI32(a, b) ==
  \/ b > 0 /\ a > MaxI32 - b
  \/ b < 0 /\ a < MinI32 - b

\* a + b on i32 with overflow checks off: the sum modulo 2^32
WrappingAddI32(a, b) ==
  IF b > 0 /\ a > MaxI32 - b THEN (a + MinI32) + (b + MinI32)
  ELSE IF b < 0 /\ a < MinI32 - b THEN (a - MinI32) + (b - MinI32)
  ELSE a + b

\* 2^n for the shifts of an i32, 0 <= n <= 30
RECURSIVE Doubled(_)
Doubled(n) == IF n = 0 THEN 1 ELSE 2 * Doubled(n - 1)
Pow2Table == [n \in 0..30 |-> Doubled(n)]
Pow2(n) == Pow2Table[n]

\* digit << s for 0 <= digit < 32 and 0 <= s < 32 on i32: the bits that leave
\* the word are lost, bit 31 is the sign
ShlI32(digit, s) ==
  IF s <= 26 THEN digit * Pow2(s)
  ELSE LET low == digit % Pow2(31 - s)
           top == (digit \div Pow2(31 - s)) % 2
       IN low * Pow2(s) + (IF top = 1 THEN MinI32 ELSE 0)

(* ------------------------------ parse_offset -------------------------- *)
DecDigits == <<"0", "1", "2", "3", "4", "5", "6", "7", "8", "9">>
HexLower == <<"a", "b", "c", "d", "e", "f">>
HexUpper == <<"A", "B", "C", "D", "E", "F">>

InSeq(c, s) == \E i \in 1..Len(s) : s[i] = c
IndexIn(c, s) == CHOOSE i \in 1..Len(s) : s[i] = c

\* char::to_digit(radix) as from_str_radix uses it
ToDigit(c, radix) ==
  IF InSeq(c, DecDigits) THEN Some(IndexIn(c, DecDigits) - 1)
  ELSE IF radix = 16 /\ InSeq(c, HexLower) THEN Some(IndexIn(c, HexLower) + 9)
  ELSE IF radix = 16 /\ InSeq(c, HexUpper) THEN Some(IndexIn(c, HexUpper) + 9)
  ELSE None

\* acc * radix + d on u32, None on overflow (checked_mul, checked_add)
MulAddU32(acc, radix, d) ==
  LET l == acc.lo * radix + d
      h == acc.hi * radix + (l \div 65536)
  IN IF h >= 65536 THEN None ELSE Some(U32(h, l % 65536))

RECURSIVE ParseDigits(_, _, _)
ParseDigits(s, radix, acc) ==
  IF s = <<>> THEN Some(acc)
  ELSE LET d == ToDigit(Head(s), radix)
       IN IF ~d.some THEN None
          ELSE LET n == MulAddU32(acc, radix, d.val)
               IN IF ~n.some THEN None ELSE ParseDigits(Tail(s), radix, n.val)

\* u32::from_str_radix: empty text and a lone sign are errors, a leading '+' is
\* accepted, '-' is no digit of an unsigned type
FromStrRadixU32(s, radix) ==
  IF s = <<>> THEN None
  ELSE IF s = <<"+">> \/ s = <<"-">> THEN None
  ELSE IF Head(s) = "+" THEN ParseDigits(Tail(s), radix, U32(0, 0))
  ELSE ParseDigits(s, radix, U32(0, 0))

StartsWith(s, p) == Len(s) >= Len(p) /\ SubSeq(s, 1, Len(p)) = p

parse_offset(s) ==
  IF StartsWith(s, <<"0", "x">>) \/ StartsWith(s, <<"0", "X">>)
  THEN FromStrRadixU32(SubSeq(s, 3, Len(s)), 16)
  ELSE FromStrRadixU32(s, 10)

(* ------------------------------ vlq_decode ---------------------------- *)
UpperAZ == <<"A", "B", "C", "D", "E", "F", "G", "H", "I", "J", "K", "L", "M",
             "N", "O", "P", "Q", "R", "S", "T", "U", "V", "W", "X", "Y", "Z">>
LowerAZ == <<"a", "b", "c", "d", "e", "f", "g", "h", "i", "j", "k", "l", "m",
             "n", "o", "p", "q", "r", "s", "t", "u", "v", "w", "x", "y", "z">>

\* the characters the match on c gives a digit
Base64Chars ==
  {UpperAZ[i] : i \in 1..Len(UpperAZ)} \cup {LowerAZ[i] : i \in 1..Len(LowerAZ)}
  \cup {DecDigits[i] : i \in 1..Len(DecDigits)} \cup {"+", "/"}

\* the arms of the match on c, for each of those characters
Base64Value ==
  [c \in Base64Chars |->
     IF InSeq(c, UpperAZ) THEN IndexIn(c, UpperAZ) - 1
     ELSE IF InSeq(c, LowerAZ) THEN IndexIn(c, LowerAZ) - 1 + 26
     ELSE IF InSeq(c, DecDigits) THEN IndexIn(c, DecDigits) - 1 + 52
     ELSE IF c = "+" THEN 62
     ELSE 63]

\* the match on c: the 6-bit digit of a base64 character, None for `_ => continue`
Base64Digit(c) ==
  IF c \in Base64Chars THEN Some(Base64Value[c]) ELSE None

\* (digit & 32) != 0
VlqContinuation(digit) == (digit \div 32) % 2 = 1

\* digit & 31
VlqLow5(digit) == digit % 32

\* VlqSigned that drops the sign bit and never negates
VlqSignedMagnitude(value) == value \div 2

\* sign * (value >> 1) with sign from value & 1
VlqSigned(value) ==
  LET sign == IF value % 2 # 0 THEN -1 ELSE 1
  IN sign * (value \div 2)

\* The loop of vlq_decode over the characters left.  `checks` is the build's
\* overflow-checks setting: with it on, a shift by 32 or more and an
\* overflowing += panic; with it off the shift amount is taken modulo 32 and
\* the sum wraps.
RECURSIVE VlqLoop(_, _, _, _, _)
VlqLoop(chars, value, shift, result, checks) ==
  IF chars = <<>> THEN [panic |-> FALSE, fields |-> result]
  ELSE
    LET d == Base64Digit(Head(chars)) IN
    IF ~d.some THEN VlqLoop(Tail(chars), value, shift, result, checks)
    ELSE
      LET continuation == VlqContinuation(d.val)
          digit == VlqLow5(d.val)
          shifted == ShlI32(digit, shift % 32)
          overflow == shift >= 32 \/ AddOverflowsI32(value, shifted)
          value2 == WrappingAddI32(value, shifted)
      IN IF checks /\ overflow THEN [panic |-> TRUE, fields |-> result]
         ELSE IF continuation
              THEN VlqLoop(Tail(chars), value2, shift + 5, result, checks)
              ELSE VlqLoop(Tail(chars), 0, 0,
                           Append(result, VlqSigned(value2)), checks)

vlq_decode(segment, checks) == VlqLoop(segment, 0, 0, <<>>, checks)


(* --------------------------- the decode pass -------------------------- *)
\* str::split: the pieces between the separators, empty pieces included
RECURSIVE Split(_, _)
Split(s, sep) ==
  IF ~InSeq(sep, s) THEN <<s>>
  ELSE LET i == CHOOSE j \in 1..Len(s) :
                  s[j] = sep /\ \A k \in 1..(j - 1) : s[k] # sep
       IN <<SubSeq(s, 1, i - 1)>> \o Split(SubSeq(s, i + 1, Len(s)), sep)

\* the segments the two nested loops visit, in order: every ','-piece of every
\* non-empty ';'-piece
RECURSIVE SegmentsOfLines(_)
SegmentsOfLines(lines) ==
  IF lines = <<>> THEN <<>>
  ELSE (IF Head(lines) = <<>> THEN <<>> ELSE Split(Head(lines), ","))
       \o SegmentsOfLines(Tail(lines))

SegmentsOf(mappings) == SegmentsOfLines(Split(mappings, ";"))

\* NextGenOffset that starts from zero at every segment
NextGenOffsetReset(gen_offset, fields) == AsU32(fields[1])

\* gen_offset.wrapping_add(fields[0] as u32)
NextGenOffset(gen_offset, fields) == WrappingAddU32(gen_offset, AsU32(fields[1]))

\* fields.len() >= 4
HasSourceFields(fields) == Len(fields) >= 4

\* SourcesGet that clamps the index into the list
SourcesGetClamped(sources, source_index) ==
  IF source_index < 0 THEN Some(sources[1])
  ELSE IF source_index >= Len(sources) THEN Some(sources[Len(sources)])
  ELSE Some(sources[source_index + 1])

\* sm.sources.get(source_index as usize).cloned(): a negative index is a huge
\* usize, past the end of any Vec
SourcesGet(sources, source_index) ==
  IF source_index >= 0 /\ source_index < Len(sources)
  THEN Some(sources[source_index + 1])
  ELSE None

\* ColumnDelta that reads the last field of the segment
ColumnDeltaLast(fields) == fields[Len(fields)]

\* the field added to original_column: fields[idx] with idx = 3
ColumnDelta(fields) == fields[4]

\* One pass of the inner loop body for a segment whose fields are not empty,
\* from the running counters c.  panic: an i32 += overflowed with overflow
\* checks on.
SegmentStep(c, fields, sources, checks) ==
  LET gen == NextGenOffset(c.gen_offset, fields) IN
  IF ~HasSourceFields(fields)
  THEN [panic |-> FALSE,
        counters |-> [c EXCEPT !.gen_offset = gen],
        entry |-> [gen_offset |-> gen, source |-> None, line |-> None,
                   column |-> None]]
  ELSE
    LET si == WrappingAddI32(c.source_index, fields[2])
        ol == WrappingAddI32(c.original_line, fields[3])
        oc == WrappingAddI32(c.original_column, ColumnDelta(fields))
        overflow == \/ AddOverflowsI32(c.source_index, fields[2])
                    \/ AddOverflowsI32(c.original_line, fields[3])
                    \/ AddOverflowsI32(ol, 1)
                    \/ AddOverflowsI32(c.original_column, ColumnDelta(fields))
    IN [panic |-> checks /\ overflow,
        counters |-> [gen_offset |-> gen, source_index |-> si,
                      original_line |-> ol, original_column |-> oc],
        entry |-> [gen_offset |-> gen,
                   source |-> SourcesGet(sources, si),
                   line |-> Some(AsU32(WrappingAddI32(ol, 1))),
                   column |-> Some(AsU32(oc))]]

\* NoEntriesParsed without the check
NoEntriesParsedNever(es) == FALSE

\* entries.is_empty() after the loops
NoEntriesParsed(es) == es = <<>>

\* sort_by_key(|e| e.gen_offset): a stable sort, equal keys keep their order
RECURSIVE InsertByKey(_, _)
InsertByKey(sorted, e) ==
  IF sorted = <<>> THEN <<e>>
  ELSE LET last == sorted[Len(sorted)] IN
       IF CmpU32(last.gen_offset, e.gen_offset) = "Greater"
       THEN Append(InsertByKey(SubSeq(sorted, 1, Len(sorted) - 1), e), last)
       ELSE Append(sorted, e)

RECURSIVE SortByKey(_)
SortByKey(es) ==
  IF es = <<>> THEN <<>>
  ELSE InsertByKey(SortByKey(SubSeq(es, 1, Len(es) - 1)), es[Len(es)])

(* ------------------------------ get_source ---------------------------- *)
\* slice::binary_search_by on a sorted slice: Ok(i) for any i whose element
\* compares Equal (which one is left to the library), else Err(insertion point).
\* Indices are 0-based, as in the code.
BinarySearch(es, target) ==
  LET eq == {i \in 0..(Len(es) - 1) :
               CmpU32(es[i + 1].gen_offset, target) = "Equal"}
      less == {i \in 0..(Len(es) - 1) :
                 CmpU32(es[i + 1].gen_offset, target) = "Less"}
  IN IF eq # {} THEN {[ok |-> TRUE, i |-> i] : i \in eq}
     ELSE {[ok |-> FALSE, i |-> Cardinality(less)]}

\* MatchIndex with Err(i) => i: the entry at the insertion point, the one
\* that follows the query
MatchIndexFollowing(r) ==
  IF r.ok THEN Some(r.i)
  ELSE IF r.i = 0 THEN None
  ELSE Some(r.i)

\* the match on the search result: the index of the best entry, None for the
\* early return of Err(0)
MatchIndex(r) ==
  IF r.ok THEN Some(r.i)
  ELSE IF r.i = 0 THEN None
  ELSE Some(r.i - 1)

\* PrevTs with find for rfind: the first entry with a source, not the last
PrevTsFirst(es, idx) ==
  LET sourced == {j \in 1..idx : es[j].source.some}
  IN IF sourced = {} THEN None
     ELSE Some(es[CHOOSE j \in sourced : \A k \in sourced : j <= k])

\* entries[..idx].iter().rfind(|prev| prev.source.is_some()): scan back from
\* idx - 1 to 0
RECURSIVE PrevTs(_, _)
PrevTs(es, idx) ==
  IF idx = 0 THEN None
  ELSE IF es[idx].source.some THEN Some(es[idx])
  ELSE PrevTs(es, idx - 1)

\* what one call prints, for the index matched
Report(es, target, m) ==
  IF ~m.some THEN [kind |-> "NoMappingLE", target |-> target]
  ELSE IF m.val >= Len(es) THEN [kind |-> "NoMappingFor", target |-> target]
  ELSE
    LET e == es[m.val + 1] IN
    IF ~e.source.some
    THEN LET ts == PrevTs(es, m.val) IN
         IF ts.some
         THEN [kind |-> "ClosestBefore", target |-> target,
               best |-> e.gen_offset, source |-> ts.val.source,
               line |-> ts.val.line, column |-> ts.val.column]
         ELSE [kind |-> "NoPrevious", target |-> target, best |-> e.gen_offset]
    ELSE [kind |-> "Source", target |-> target, best |-> e.gen_offset,
          source |-> e.source, line |-> e.line, column |-> e.column]

\* the outcomes of get_source(entries, target_offset): idx and the report
get_source(es, target) ==
  {[idx |-> MatchIndex(r), out |-> Report(es, target, MatchIndex(r))] :
     r \in BinarySearch(es, target)}

(* ------------------------------- inputs ------------------------------- *)
\* offset literals of the command line: 0x2 and 4294967295 parse; "0x" has no
\* digits, 4294967296 overflows u32, -1 is not unsigned
OffsetLiterals ==
  { <<"0", "x", "2">>,
    <<"4", "2", "9", "4", "9", "6", "7", "2", "9", "5">>,
    <<"0", "x">>,
    <<"4", "2", "9", "4", "9", "6", "7", "2", "9", "6">>,
    <<"-", "1">> }

RECURSIVE SeqsUpTo(_, _)
SeqsUpTo(S, n) ==
  IF n = 0 THEN {<<>>}
  ELSE LET shorter == SeqsUpTo(S, n - 1)
       IN shorter \cup {Append(q, x) : q \in shorter, x \in S}

\* segments of a mappings string: empty; "g" ends inside a value; 1, 3, 4 and 5
\* fields; "=" is no base64 digit; deltas that take the counters below zero
\* and the source index out of the sources list; "gggggggC" shifts by 35
SegmentSet ==
  { <<>>, <<"g">>, <<"C">>,
    <<"D", "D", "A", "A">>, <<"C", "C", "A", "D">>,
    <<"C", "A", "=", "A">>, <<"A", "A", "A", "A", "C">>,
    <<"g", "g", "g", "g", "g", "g", "g", "C">> }

RECURSIVE MappingsOf(_)
MappingsOf(n) ==
  IF n = 1 THEN SegmentSet
  ELSE {m \o <<sep>> \o seg :
          m \in MappingsOf(n - 1), sep \in {",", ";"}, seg \in SegmentSet}

MappingsSet == UNION {MappingsOf(n) : n \in 1..MaxSegs}

SourcesSet == {<<"a.ts">>, <<"a.ts", "b.ts">>}

(* ------------------------------- state -------------------------------- *)
VARIABLES
  pc,               \* where main is: start, read, decode, query, done, failed, panicked
  offsets,          \* args.offsets
  target_offsets,   \* the parsed offsets
  sm,               \* the SourceMap read from the file, None before
  segs,             \* the segments the loops have still to visit
  gen_offset, source_index, original_line, original_column,
  entries,
  qi,               \* the position of the loop over target_offsets
  output,           \* what the calls of get_source have printed, one report each
  matched,          \* idx of each call of get_source
  err,              \* why main returned Err
  vlq_pc, vlq_values, vlq_text, vlq_result   \* the VLQ round trip

vars == <<pc, offsets, target_offsets, sm, segs, gen_offset, source_index,
          original_line, original_column, entries, qi, output, matched, err,
          vlq_pc, vlq_values, vlq_text, vlq_result>>

mainVars == <<pc, offsets, target_offsets, sm, segs, gen_offset, source_index,
              original_line, original_column, entries, qi, output, matched, err>>
vlqVars == <<vlq_pc, vlq_values, vlq_text, vlq_result>>
counterVars == <<gen_offset, source_index, original_line, original_column>>

Counters == [gen_offset |-> gen_offset, source_index |-> source_index,
             original_line |-> original_line,
             original_column |-> original_column]

MainStart(p) ==
  /\ pc = p
  /\ target_offsets = <<>>
  /\ sm = None
  /\ segs = <<>>
  /\ gen_offset = U32(0, 0)
  /\ source_index = 0
  /\ original_line = 0
  /\ original_column = 0
  /\ entries = <<>>
  /\ qi = 1
  /\ output = <<>>
  /\ matched = <<>>
  /\ err = "none"

VlqIdle ==
  /\ vlq_pc = "idle"
  /\ vlq_values = <<>>
  /\ vlq_text = <<>>
  /\ vlq_result = <<>>

Init ==
  /\ offsets \in SeqsUpTo(OffsetLiterals, MaxOffsets)
  /\ MainStart("start")
  /\ VlqIdle

(* -------------------------------- main -------------------------------- *)
Fail(why) ==
  /\ pc' = "failed"
  /\ err' = why
  /\ UNCHANGED <<offsets, target_offsets, sm, segs, counterVars, entries, qi,
                 output, matched, vlqVars>>

\* CollectOffsets that drops the literals that do not parse (filter_map)
ParsesAsOffset(lit) == parse_offset(lit).some
CollectOffsetsSkipping(offs) ==
  LET good == SelectSeq(offs, ParsesAsOffset)
  IN Some([i \in 1..Len(good) |-> parse_offset(good[i]).val])

\* args.offsets.iter().map(parse_offset .. ok_or_else).collect::<Result<Vec>>():
\* one literal that does not parse makes the whole result an Err
CollectOffsets(offs) ==
  IF \E i \in 1..Len(offs) : ~parse_offset(offs[i]).some THEN None
  ELSE Some([i \in 1..Len(offs) |-> parse_offset(offs[i]).val])

NoOffsets ==
  /\ pc = "start"
  /\ offsets = <<>>
  /\ Fail("NoOffsets")

InvalidOffset ==
  /\ pc = "start"
  /\ offsets # <<>>
  /\ ~CollectOffsets(offsets).some
  /\ Fail("InvalidOffset")

ParseOffsets ==
  /\ pc = "start"
  /\ offsets # <<>>
  /\ CollectOffsets(offsets).some
  /\ target_offsets' = CollectOffsets(offsets).val
  /\ pc' = "read"
  /\ UNCHANGED <<offsets, sm, segs, counterVars, entries, qi, output, matched,
                 err, vlqVars>>

\* fs::read_to_string or serde_json::from_str returns Err
ReadMapFails ==
  /\ pc = "read"
  /\ Fail("MapFile")

ReadMap ==
  /\ pc = "read"
  /\ \E m \in MappingsSet, s \in SourcesSet :
       /\ sm' = Some([mappings |-> m, sources |-> s])
       /\ segs' = SegmentsOf(m)
  /\ pc' = "decode"
  /\ UNCHANGED <<offsets, target_offsets, counterVars, entries, qi, output,
                 matched, err, vlqVars>>

Panic ==
  /\ pc' = "panicked"
  /\ UNCHANGED <<offsets, target_offsets, sm, segs, counterVars, entries, qi,
                 output, matched, err, vlqVars>>

\* one pass of the inner loop: decode the next segment, skip it when it has no
\* field, else advance the counters and push an entry.  An overflow panics or
\* wraps, as the build's overflow checks decide.
DecodeSegment ==
  /\ pc = "decode"
  /\ segs # <<>>
  /\ \E checks \in BOOLEAN :
       LET d == vlq_decode(Head(segs), checks) IN
       IF d.panic THEN Panic
       ELSE IF d.fields = <<>>
       THEN /\ segs' = Tail(segs)
            /\ UNCHANGED <<pc, offsets, target_offsets, sm, counterVars,
                           entries, qi, output, matched, err, vlqVars>>
       ELSE LET r == SegmentStep(Counters, d.fields, sm.val.sources, checks) IN
            IF r.panic THEN Panic
            ELSE /\ segs' = Tail(segs)
                 /\ gen_offset' = r.counters.gen_offset
                 /\ source_index' = r.counters.source_index
                 /\ original_line' = r.counters.original_line
                 /\ original_column' = r.counters.original_column
                 /\ entries' = Append(entries, r.entry)
                 /\ UNCHANGED <<pc, offsets, target_offsets, sm, qi, output,
                                matched, err, vlqVars>>

DecodeEmpty ==
  /\ pc = "decode"
  /\ segs = <<>>
  /\ NoEntriesParsed(entries)
  /\ Fail("NoEntries")

SortEntries ==
  /\ pc = "decode"
  /\ segs = <<>>
  /\ ~NoEntriesParsed(entries)
  /\ entries' = SortByKey(entries)
  /\ pc' = "query"
  /\ UNCHANGED <<offsets, target_offsets, sm, segs, counterVars, qi, output,
                 matched, err, vlqVars>>

\* NextTarget that leaves the loop after "no mapping found"
NextTargetStopping(i, out) ==
  IF out.kind = "NoMappingLE" THEN Len(target_offsets) + 1 ELSE i + 1

\* the loop over target_offsets goes on to the next offset whatever was printed
NextTarget(i, out) == i + 1

Query ==
  /\ pc = "query"
  /\ qi <= Len(target_offsets)
  /\ \E r \in get_source(entries, target_offsets[qi]) :
       /\ output' = Append(output, r.out)
       /\ matched' = Append(matched, r.idx)
       /\ qi' = NextTarget(qi, r.out)
  /\ UNCHANGED <<pc, offsets, target_offsets, sm, segs, counterVars, entries,
                 err, vlqVars>>

Finish ==
  /\ pc = "query"
  /\ qi > Len(target_offsets)
  /\ pc' = "done"
  /\ UNCHANGED <<offsets, target_offsets, sm, segs, counterVars, entries, qi,
                 output, matched, err, vlqVars>>

Next ==
  \/ NoOffsets
  \/ InvalidOffset
  \/ ParseOffsets
  \/ ReadMapFails
  \/ ReadMap
  \/ DecodeSegment
  \/ DecodeEmpty
  \/ SortEntries
  \/ Query
  \/ Finish

Spec == Init /\ [][Next]_vars

(* --------------------------- VLQ round trip --------------------------- *)
\* The encoder of the base64-VLQ scheme: the sign in the least-significant bit,
\* then 5 bits per digit, least-significant group first, bit 5 set on every
\* digit but the last.
Base64Alphabet == UpperAZ \o LowerAZ \o DecDigits \o <<"+", "/">>

RECURSIVE VlqEncodeDigits(_)
VlqEncodeDigits(value) ==
  LET d == value % 32
      rest == value \div 32
  IN IF rest > 0 THEN <<Base64Alphabet[d + 32 + 1]>> \o VlqEncodeDigits(rest)
     ELSE <<Base64Alphabet[d + 1]>>

VlqEncode(v) == VlqEncodeDigits(IF v < 0 THEN 2 * (-v) + 1 ELSE 2 * v)

RECURSIVE VlqEncodeAll(_)
VlqEncodeAll(vs) ==
  IF vs = <<>> THEN <<>> ELSE VlqEncode(Head(vs)) \o VlqEncodeAll(Tail(vs))

\* 0, +-1 and both sides of every 5-bit threshold of the encoded value, up to
\* the largest magnitude whose encoded value fits the i32 accumulator
VlqSamples ==
  {0, 1, -1, Pow2(30) - 1, 1 - Pow2(30)}
  \cup {sgn * (Pow2(k) - 1) : sgn \in {1, -1}, k \in {4, 9, 14, 19, 24, 29}}
  \cup {sgn * Pow2(k) : sgn \in {1, -1}, k \in {4, 9, 14, 19, 24, 29}}

InitVlq ==
  /\ offsets = <<>>
  /\ MainStart("off")
  /\ vlq_pc = "values"
  /\ vlq_values \in SeqsUpTo(VlqSamples, MaxValues)
  /\ vlq_text = <<>>
  /\ vlq_result = <<>>

VlqEncodeValues ==
  /\ vlq_pc = "values"
  /\ vlq_text' = VlqEncodeAll(vlq_values)
  /\ vlq_pc' = "encoded"
  /\ UNCHANGED <<mainVars, vlq_values, vlq_result>>

VlqDecodeText ==
  /\ vlq_pc = "encoded"
  /\ \E checks \in BOOLEAN :
       LET d == vlq_decode(vlq_text, checks) IN
       IF d.panic THEN vlq_pc' = "panicked" /\ vlq_result' = d.fields
       ELSE vlq_pc' = "decoded" /\ vlq_result' = d.fields
  /\ UNCHANGED <<mainVars, vlq_values, vlq_text>>

NextVlq == VlqEncodeValues \/ VlqDecodeText

SpecVlq == InitVlq /\ [][NextVlq]_vars

(* ------------------------------ properties ---------------------------- *)
\* a <= b and a < b on u32, from the halves
LeU32(a, b) == a.hi < b.hi \/ (a.hi = b.hi /\ a.lo <= b.lo)
LtU32(a, b) == LeU32(a, b) /\ a # b

\* the u32 u is the integer n
IsIntU32(u, n) == n >= 0 /\ u.hi < 32768 /\ u.hi * 65536 + u.lo = n

\* the u32 u is the integer n modulo 2^32 (n of small magnitude): for n < 0,
\* 2^32 - 1 - u = -n - 1
IsIntModU32(u, n) ==
  IF n >= 0 THEN IsIntU32(u, n)
  ELSE u.hi >= 32768 /\ (65535 - u.hi) * 65536 + (65535 - u.lo) = -n - 1

Searched == pc \in {"query", "done"}

IsSortedByOffset(es) ==
  \A j \in 1..(Len(es) - 1) : LeU32(es[j].gen_offset, es[j + 1].gen_offset)

\* the 1-based positions of the entries at or below the offset q
AtOrBelow(q) == {j \in 1..Len(entries) : LeU32(entries[j].gen_offset, q)}

\* C1: floor search. The table searched is sorted ascending by generated offset;
\* for every lookup made, if some entry has an offset <= the queried offset the
\* entry matched has the largest such offset (never one above the query) and
\* that offset is the one reported, and if none has, "no mapping found" is
\* reported and nothing is matched.
C1_FloorSearch ==
  Searched =>
    /\ IsSortedByOffset(entries)
    /\ \A i \in 1..Len(output) :
         LET q == target_offsets[i] IN
         IF AtOrBelow(q) = {}
         THEN output[i].kind = "NoMappingLE" /\ ~matched[i].some
         ELSE /\ matched[i].some
              /\ (matched[i].val + 1) \in AtOrBelow(q)
              /\ \A j \in AtOrBelow(q) :
                   LeU32(entries[j].gen_offset,
                         entries[matched[i].val + 1].gen_offset)
              /\ output[i].kind \in {"Source", "ClosestBefore", "NoPrevious"}
              /\ output[i].best = entries[matched[i].val + 1].gen_offset

\* a lookup fell strictly between two offsets of the table and matched the
\* one before
C1_Witness ==
  /\ pc = "done"
  /\ \E i \in 1..Len(output) :
       /\ matched[i].some
       /\ LtU32(output[i].best, target_offsets[i])
       /\ \E j \in 1..Len(entries) :
            LtU32(target_offsets[i], entries[j].gen_offset)

\* the positions before the 0-based index idx whose entry has a source
SourcedBefore(idx) == {j \in 1..idx : entries[j].source.some}

SetMax(S) == CHOOSE x \in S : \A y \in S : y <= x

\* C2: fallback search. For every lookup whose matched entry has no source, the
\* "closest source before this" reported is the source, line and column of the
\* entry of greatest index strictly below the match that has a source, and if
\* no entry below the match has one, "no previous source found" is reported.
C2_Fallback ==
  Searched =>
    \A i \in 1..Len(output) :
      (matched[i].some /\ ~entries[matched[i].val + 1].source.some) =>
        LET before == SourcedBefore(matched[i].val) IN
        IF before = {} THEN output[i].kind = "NoPrevious"
        ELSE LET e == entries[SetMax(before)] IN
             /\ output[i].kind = "ClosestBefore"
             /\ output[i].source = e.source
             /\ output[i].line = e.line
             /\ output[i].column = e.column

\* a source-less match with two different sourced entries before it
C2_Witness ==
  /\ pc = "done"
  /\ \E i \in 1..Len(output) :
       /\ output[i].kind = "ClosestBefore"
       /\ \E j, k \in SourcedBefore(matched[i].val) :
            j < k /\ entries[j].source # entries[k].source

\* the fields of the segments already visited that produced an entry, in order
Visited ==
  LET all == SegmentsOf(sm.val.mappings)
  IN SubSeq(all, 1, Len(all) - Len(segs))

HasFields(seg) == vlq_decode(seg, FALSE).fields # <<>>

ProducedFields ==
  LET producing == SelectSeq(Visited, HasFields)
  IN [k \in 1..Len(producing) |-> vlq_decode(producing[k], FALSE).fields]

\* the sum of field n (1-based) over the first k producing segments that have
\* at least `least` fields
RECURSIVE SumField(_, _, _, _)
SumField(F, k, n, least) ==
  IF k = 0 THEN 0
  ELSE SumField(F, k - 1, n, least)
       + (IF Len(F[k]) >= least THEN F[k][n] ELSE 0)

\* C3, as stated: the k-th entry produced has generated_offset equal to the sum
\* of field 0 of the segments up to k, and for a segment of >= 4 fields the
\* source sources[sum of field 1], line (sum of field 2) + 1 and column sum of
\* field 3.
C3_SumsAsStated ==
  (pc = "decode") =>
    LET F == ProducedFields IN
    /\ Len(entries) = Len(F)
    /\ \A k \in 1..Len(F) :
         /\ IsIntU32(entries[k].gen_offset, SumField(F, k, 1, 1))
         /\ Len(F[k]) >= 4 =>
              LET s1 == SumField(F, k, 2, 4) IN
              /\ (s1 >= 0 /\ s1 < Len(sm.val.sources)) =>
                   entries[k].source = Some(sm.val.sources[s1 + 1])
              /\ entries[k].line.some
              /\ IsIntU32(entries[k].line.val, SumField(F, k, 3, 4) + 1)
              /\ entries[k].column.some
              /\ IsIntU32(entries[k].column.val, SumField(F, k, 4, 4))

\* C3, amended: the same sums, with generated_offset, line and column held as
\* u32, that is modulo 2^32; the source is sources[sum of field 1] when that
\* index is inside the list.
C3_SumsModulo ==
  (pc = "decode") =>
    LET F == ProducedFields IN
    /\ Len(entries) = Len(F)
    /\ \A k \in 1..Len(F) :
         /\ IsIntModU32(entries[k].gen_offset, SumField(F, k, 1, 1))
         /\ Len(F[k]) >= 4 =>
              LET s1 == SumField(F, k, 2, 4) IN
              /\ (s1 >= 0 /\ s1 < Len(sm.val.sources)) =>
                   entries[k].source = Some(sm.val.sources[s1 + 1])
              /\ entries[k].line.some
              /\ IsIntModU32(entries[k].line.val, SumField(F, k, 3, 4) + 1)
              /\ entries[k].column.some
              /\ IsIntModU32(entries[k].column.val, SumField(F, k, 4, 4))

\* three entries decoded across a ';', the third with source "b.ts" after an
\* "a.ts", a column sum below zero and a generated offset above 0
C3_Witness ==
  /\ pc = "decode"
  /\ Len(entries) = 3
  /\ InSeq(";", sm.val.mappings)
  /\ entries[3].source = Some("b.ts")
  /\ entries[2].source = Some("a.ts")
  /\ entries[3].column = Some(U32(65535, 65535))
  /\ LtU32(U32(0, 0), entries[3].gen_offset)

\* C4: every entry of the table has source, line and column all present or
\* all absent.
C4_PresenceInvariant ==
  \A k \in 1..Len(entries) :
    /\ entries[k].source.some <=> entries[k].line.some
    /\ entries[k].line.some <=> entries[k].column.some

\* C5: decoding the concatenated encodings of v1..vn returns [v1, ..., vn], for
\* values whose encoded value fits the accumulator (magnitude below 2^30).
C5_VlqRoundTrip ==
  /\ vlq_pc # "panicked"
  /\ vlq_pc = "decoded" => vlq_result = vlq_values

\* two values decoded from one text, the first negative and seven digits long
C5_Witness ==
  /\ vlq_pc = "decoded"
  /\ Len(vlq_values) = 2
  /\ vlq_values[1] = 1 - Pow2(30)
  /\ Len(vlq_text) > 7
  /\ vlq_result[2] = 16

\* the reports so far are those of the offsets so far, in order, each a report
\* get_source gives for that offset alone on the table
C6_ReportsInOrder ==
  Searched =>
    /\ Len(output) = qi - 1
    /\ Len(output) <= Len(target_offsets)
    /\ pc = "done" => Len(output) = Len(target_offsets)
    /\ \A i \in 1..Len(output) :
         /\ output[i].target = target_offsets[i]
         /\ output[i] \in {r.out : r \in get_source(entries, target_offsets[i])}

\* a lookup leaves the table as it was
C6_TableUnchanged == (pc = "query") => (entries' = entries)

\* C6: one report per offset, in the order supplied, each a report get_source
\* gives for that offset alone on the table; a lookup leaves the table as it
\* was; at the end there are as many reports as offsets, whatever each said
\* ("no mapping found" and "no previous source" do not end the loop).
C6_QueryOrdering == []C6_ReportsInOrder /\ [][C6_TableUnchanged]_vars

\* "no mapping found" for the first offset, a match for the second
C6_Witness ==
  /\ pc = "done"
  /\ Len(output) = 2
  /\ output[1].kind = "NoMappingLE"
  /\ output[2].kind = "NoPrevious"

BadArgs ==
  \/ offsets = <<>>
  \/ \E i \in 1..Len(offsets) : ~parse_offset(offsets[i]).some

\* C7: with no offset, or with a literal that does not parse anywhere in the
\* list, main fails on the arguments: nothing is reported, and the map is
\* neither read nor decoded.
C7_InputErrorsFirst ==
  BadArgs =>
    /\ pc \in {"start", "failed"}
    /\ pc = "failed" => err \in {"NoOffsets", "InvalidOffset"}
    /\ output = <<>>
    /\ sm = None
    /\ entries = <<>>

\* failed on a bad literal that follows a good one
C7_Witness ==
  /\ pc = "failed"
  /\ err = "InvalidOffset"
  /\ Len(offsets) = 2
  /\ parse_offset(offsets[1]).some
  /\ ~parse_offset(offsets[2]).some

\* a character that ends a VLQ value: a base64 digit below 32, 'A'..'Z' or
\* 'a'..'f'
EndsValue(c) == InSeq(c, UpperAZ) \/ InSeq(c, HexLower)

\* the text holds a complete VLQ value somewhere between its separators
HasValue(m) == \E i \in 1..Len(m) : EndsValue(m[i])

\* C8: a decode pass that ends with no entry (a mappings string with no
\* complete VLQ value) fails with the decode-empty error and reports nothing;
\* one that ends with an entry does not, and every offset gets its report.
C8_DecodeEmpty ==
  sm.some =>
    LET m == sm.val.mappings IN
    /\ (pc = "decode" /\ segs = <<>>) => (NoEntriesParsed(entries) <=> ~HasValue(m))
    /\ (pc = "decode" /\ segs = <<>> /\ ~HasValue(m)) =>
         (ENABLED DecodeEmpty /\ ~ENABLED SortEntries)
    /\ (pc = "decode" /\ segs = <<>> /\ HasValue(m)) =>
         (ENABLED SortEntries /\ ~ENABLED DecodeEmpty)
    /\ (pc = "failed" /\ err = "NoEntries") => (~HasValue(m) /\ output = <<>>)
    /\ Searched => HasValue(m)
    /\ ~HasValue(m) => output = <<>>
    /\ pc = "done" => Len(output) = Len(target_offsets)

\* the decode-empty error for a text of separators and an unfinished value
C8_Witness ==
  /\ pc = "failed"
  /\ err = "NoEntries"
  /\ InSeq("g", sm.val.mappings)
  /\ InSeq(";", sm.val.mappings)
  /\ InSeq(",", sm.val.mappings)

\* the fields of the segment the next pass of the loop decodes
NextFields == vlq_decode(Head(segs), FALSE).fields

Decoding == pc = "decode" /\ segs # <<>>

\* a pass of the loop over a segment of >= 4 fields that takes source_index out
\* of the sources list
C9_OutOfRangeStep ==
  (/\ Decoding
   /\ Len(NextFields) >= 4
   /\ LET si == source_index + NextFields[2]
      IN si < 0 \/ si >= Len(sm.val.sources))
  =>
  /\ pc' = "decode"
  /\ err' = "none"
  /\ segs' = Tail(segs)
  /\ source_index' = source_index + NextFields[2]
  /\ original_line' = original_line + NextFields[3]
  /\ original_column' = original_column + NextFields[4]
  /\ gen_offset' = WrappingAddU32(gen_offset, AsU32(NextFields[1]))
  /\ Len(entries') = Len(entries) + 1
  /\ SubSeq(entries', 1, Len(entries)) = entries
  /\ entries'[Len(entries')].gen_offset = gen_offset'
  /\ entries'[Len(entries')].source = None

\* C9: a segment of >= 4 fields that takes source_index below zero or past the
\* sources list still produces an entry, at the advanced generated offset and
\* with no source; the decode does not fail and goes on to the next segment
\* with the counters carried forward.
C9_OutOfRangeTolerated == [][C9_OutOfRangeStep]_vars

\* an entry left without a source by an index below zero, and after it an
\* entry whose source the carried index finds
C9_Witness ==
  /\ pc = "decode"
  /\ sm.some
  /\ \E k \in 1..(Len(entries) - 1) :
       /\ ~entries[k].source.some
       /\ entries[k].line.some
       /\ entries[k + 1].source = Some("a.ts")

\* a pass of the loop that decodes a segment and pushes its entry
C10_FieldCountStep ==
  (Decoding /\ pc' = "decode" /\ NextFields # <<>>) =>
    /\ Len(NextFields) < 4 =>
         /\ gen_offset' = WrappingAddU32(gen_offset, AsU32(NextFields[1]))
         /\ entries' = Append(entries, [gen_offset |-> gen_offset',
                                        source |-> None, line |-> None,
                                        column |-> None])
         /\ UNCHANGED <<source_index, original_line, original_column>>
    /\ Len(NextFields) > 4 =>
         LET r == SegmentStep(Counters, SubSeq(NextFields, 1, 4),
                              sm.val.sources, FALSE)
         IN /\ entries' = Append(entries, r.entry)
            /\ gen_offset' = r.counters.gen_offset
            /\ source_index' = r.counters.source_index
            /\ original_line' = r.counters.original_line
            /\ original_column' = r.counters.original_column

\* C10: a pass that decodes a segment of 1, 2 or 3 fields pushes an entry with
\* no source, line or column, advances gen_offset by field 0 and leaves the
\* other counters alone; a pass that decodes more than 4 fields does what it
\* does for the first four alone.
C10_FieldCount == [][C10_FieldCountStep]_vars

\* a 5-field segment and then a 3-field segment have been decoded
C10_Witness ==
  /\ pc = "decode"
  /\ sm.some
  /\ sm.val.mappings = <<"A", "A", "A", "A", "C", ",", "C", "A", "=", "A">>
  /\ Len(entries) = 2

=============================================================================
